---- MODULE Spec2Model ----
(***************************************************************************)
(* A model of juce::ComboBox (src/gui/components/controls/                 *)
(* juce_ComboBox.cpp): the item store, the selection state, the popup      *)
(* menu hand-shake and the coalesced change notification.                  *)
(*                                                                         *)
(* The model is the release build: jassert is compiled out, so a handler   *)
(* whose assertion would fail simply carries on with the code after it.    *)
(* Collaborators whose code is outside the file (Label, Value,             *)
(* AsyncUpdater, ListenerList, PopupMenu, SafePointer) are modelled by     *)
(* the contract the file relies on.                                        *)
(***************************************************************************)
EXTENDS Integers, Sequences, FiniteSets, TLC

\* ---------------------------------------------------------------- bounds
MaxItems == 3        \* entries the item store may hold
MaxShown == 2        \* the same, where the store is only a backdrop
MaxNotified == 1     \* the same, where only the notifications are observed
MaxId == 2           \* item ids are drawn from 0..MaxId
NumListeners == 2    \* listener objects that exist
MaxTriggers == 2     \* the count of coalesced triggers saturates here

Names == {"a", "b"}
Texts == Names \cup {""}
Ids == 0..MaxId
ListenerIds == 1..NumListeners

\* ---------------------------------------------------------------- state
VARIABLES
    items,             \* OwnedArray<ItemInfo> items
    separatorPending,  \* bool separatorPending
    lastCurrentId,     \* int lastCurrentId
    currentId,         \* Value currentId (its present value)
    valueQueued,       \* currentId has a change message in flight to valueChanged
    labelText,         \* label->getText()
    editable,          \* label->isEditable()
    menuActive,        \* bool menuActive
    isButtonDown,      \* bool isButtonDown
    listeners,         \* ListenerList<Listener> listeners
    asyncQueued,       \* async-update messages posted and not yet delivered
    triggers,          \* triggerAsyncUpdate calls since the last delivery (saturating)
    menus,             \* per popup menu shown and not yet finished: the ids it may return
    alive,             \* the ComboBox has not been destroyed
    liveListeners,     \* listener objects that have not been destroyed
    pc,                \* "idle", "dispatch" inside handleAsyncUpdate, or "crashed"
    iter,              \* the callChecked iteration of the running dispatch
    calls,             \* comboBoxChanged calls per listener in the latest dispatch
    calledDead,        \* a destroyed listener has been called
    accessAfterFree,   \* the destroyed ComboBox has been read or written
    added              \* history: the ids of the addItem calls with non-empty
                       \* text and a non-zero id since the last clear, in call order

widget == <<items, separatorPending, lastCurrentId, currentId, valueQueued,
            labelText, editable, menuActive, isButtonDown, listeners,
            asyncQueued, triggers, menus>>
vars == <<items, separatorPending, lastCurrentId, currentId, valueQueued,
          labelText, editable, menuActive, isButtonDown, listeners,
          asyncQueued, triggers, menus, alive, liveListeners, pc, iter,
          calls, calledDead, accessAfterFree, added>>

\* The widget as one value, so that a handler is a function from Box to Box.
Box ==
    [items |-> items, separatorPending |-> separatorPending,
     lastCurrentId |-> lastCurrentId, currentId |-> currentId,
     valueQueued |-> valueQueued, labelText |-> labelText,
     editable |-> editable, menuActive |-> menuActive,
     isButtonDown |-> isButtonDown, listeners |-> listeners,
     asyncQueued |-> asyncQueued, triggers |-> triggers, menus |-> menus]

Commit(b) ==
    /\ items' = b.items
    /\ separatorPending' = b.separatorPending
    /\ lastCurrentId' = b.lastCurrentId
    /\ currentId' = b.currentId
    /\ valueQueued' = b.valueQueued
    /\ labelText' = b.labelText
    /\ editable' = b.editable
    /\ menuActive' = b.menuActive
    /\ isButtonDown' = b.isButtonDown
    /\ listeners' = b.listeners
    /\ asyncQueued' = b.asyncQueued
    /\ triggers' = b.triggers
    /\ menus' = b.menus

Max(x, y) == IF x >= y THEN x ELSE y
Min(x, y) == IF x <= y THEN x ELSE y

\* ---------------------------------------------------------------- ItemInfo
ItemInfo(name, itemId, isEnabled, isHeading) ==
    [name |-> name, itemId |-> itemId, isEnabled |-> isEnabled,
     isHeading |-> isHeading]

\* the entry built for a pending separator: a default ItemInfo (empty name)
SeparatorItem == ItemInfo("", 0, FALSE, FALSE)

isSeparator(item) == item.name = ""

isRealItem(item) == ~(item.isHeading \/ item.name = "")

\* ---------------------------------------------------------------- lookups
\* getItemForId returns a pointer; here the position in items, 0 for null.
\* The scan runs from the last entry to the first.
getItemForId(b, itemId) ==
    IF itemId # 0
    THEN LET hits == {i \in 1..Len(b.items) : b.items[i].itemId = itemId}
         IN IF hits = {} THEN 0 ELSE CHOOSE i \in hits : \A j \in hits : j <= i
    ELSE 0

\* positions of the real items, in store order
RealPositions(b) == {i \in 1..Len(b.items) : isRealItem(b.items[i])}

\* how many real items lie strictly before position i
RealBefore(b, i) == Cardinality({j \in RealPositions(b) : j < i})

\* getItemForIndex: the position of the index-th real item (0-based), 0 for null
getItemForIndex(b, index) ==
    LET hits == {i \in RealPositions(b) : RealBefore(b, i) = index}
    IN IF hits = {} THEN 0 ELSE CHOOSE i \in hits : TRUE

\* getNumItems counting every entry of the store
getNumItemsAllEntries(b) == Len(b.items)

getNumItems(b) == Cardinality(RealPositions(b))

getItemText(b, index) ==
    LET p == getItemForIndex(b, index)
    IN IF p # 0 THEN b.items[p].name ELSE ""

getItemId(b, index) ==
    LET p == getItemForIndex(b, index)
    IN IF p # 0 THEN b.items[p].itemId ELSE 0

\* indexOfItemId advancing its counter on every entry, real or not
indexOfItemIdAllEntries(b, itemId) ==
    LET hits == {i \in RealPositions(b) : b.items[i].itemId = itemId}
    IN IF hits = {} THEN -1
       ELSE (CHOOSE i \in hits : \A j \in hits : i <= j) - 1

\* the first real item carrying itemId, counted among the real items
indexOfItemId(b, itemId) ==
    LET hits == {i \in RealPositions(b) : b.items[i].itemId = itemId}
    IN IF hits = {} THEN -1
       ELSE RealBefore(b, CHOOSE i \in hits : \A j \in hits : i <= j)

getText(b) == b.labelText

\* getSelectedItemIndex not comparing the label text
getSelectedItemIndexIdOnly(b) == indexOfItemId(b, b.currentId)

getSelectedItemIndex(b) ==
    LET index == indexOfItemId(b, b.currentId)
    IN IF getText(b) # getItemText(b, index) THEN -1 ELSE index

getSelectedId(b) ==
    LET p == getItemForId(b, b.currentId)
    IN IF p # 0 /\ getText(b) = b.items[p].name THEN b.items[p].itemId ELSE 0

\* ---------------------------------------------------------------- collaborators
\* AsyncUpdater::triggerAsyncUpdate: a message is posted only when none is
\* already pending, so repeated triggers collapse into one delivery.
triggerAsyncUpdate(b) ==
    [b EXCEPT !.asyncQueued = IF @ = 0 THEN 1 ELSE @,
              !.triggers = Min(@ + 1, MaxTriggers)]

\* Label::setText (text, false): the text changes, no labelTextChanged is sent.
labelSetText(b, text) == [b EXCEPT !.labelText = text]

\* Value::operator=: a new value is stored and its listeners (valueChanged)
\* are told later, by a message of the Value's own.
valueAssign(b, v) ==
    [b EXCEPT !.currentId = v,
              !.valueQueued = IF b.currentId # v THEN TRUE ELSE @]

\* ---------------------------------------------------------------- item store
addItem(b, newItemText, newItemId) ==
    IF newItemText # "" /\ newItemId # 0
    THEN LET withSeparator == IF b.separatorPending
                              THEN Append(b.items, SeparatorItem)
                              ELSE b.items
         IN [b EXCEPT !.separatorPending = FALSE,
                      !.items = Append(withSeparator,
                                       ItemInfo(newItemText, newItemId, TRUE, FALSE))]
    ELSE b

addSeparator(b) == [b EXCEPT !.separatorPending = (Len(b.items) > 0)]

addSectionHeading(b, headingName) ==
    IF headingName # ""
    THEN LET withSeparator == IF b.separatorPending
                              THEN Append(b.items, SeparatorItem)
                              ELSE b.items
         IN [b EXCEPT !.separatorPending = FALSE,
                      !.items = Append(withSeparator,
                                       ItemInfo(headingName, 0, TRUE, TRUE))]
    ELSE b

setItemEnabled(b, itemId, shouldBeEnabled) ==
    LET p == getItemForId(b, itemId)
    IN IF p # 0 THEN [b EXCEPT !.items[p].isEnabled = shouldBeEnabled] ELSE b

changeItemText(b, itemId, newText) ==
    LET p == getItemForId(b, itemId)
    IN IF p # 0 THEN [b EXCEPT !.items[p].name = newText] ELSE b

\* ---------------------------------------------------------------- selection
\* setSelectedId notifying whatever dontSendChangeMessage says
setSelectedIdIgnoresFlag(b, newItemId, dontSendChangeMessage) ==
    LET p == getItemForId(b, newItemId)
        newItemText == IF p # 0 THEN b.items[p].name ELSE ""
    IN IF b.lastCurrentId # newItemId \/ b.labelText # newItemText
       THEN LET b1 == triggerAsyncUpdate(b)
                b2 == labelSetText(b1, newItemText)
                b3 == [b2 EXCEPT !.lastCurrentId = newItemId]
            IN valueAssign(b3, newItemId)
       ELSE b

\* setSelectedId comparing only the ids, not the label text
setSelectedIdIdOnly(b, newItemId, dontSendChangeMessage) ==
    LET p == getItemForId(b, newItemId)
        newItemText == IF p # 0 THEN b.items[p].name ELSE ""
    IN IF b.lastCurrentId # newItemId
       THEN LET b1 == IF ~dontSendChangeMessage THEN triggerAsyncUpdate(b) ELSE b
                b2 == labelSetText(b1, newItemText)
                b3 == [b2 EXCEPT !.lastCurrentId = newItemId]
            IN valueAssign(b3, newItemId)
       ELSE b

setSelectedId(b, newItemId, dontSendChangeMessage) ==
    LET p == getItemForId(b, newItemId)
        newItemText == IF p # 0 THEN b.items[p].name ELSE ""
    IN IF b.lastCurrentId # newItemId \/ b.labelText # newItemText
       THEN LET b1 == IF ~dontSendChangeMessage THEN triggerAsyncUpdate(b) ELSE b
                b2 == labelSetText(b1, newItemText)
                b3 == [b2 EXCEPT !.lastCurrentId = newItemId]
            IN valueAssign(b3, newItemId)
       ELSE b

setSelectedItemIndex(b, index, dontSendChangeMessage) ==
    setSelectedId(b, getItemId(b, index), dontSendChangeMessage)

valueChanged(b) ==
    IF b.lastCurrentId # b.currentId
    THEN setSelectedId(b, b.currentId, FALSE)
    ELSE b

\* the last real item named newText, 0 when there is none
ItemNamed(b, newText) ==
    LET hits == {i \in RealPositions(b) : b.items[i].name = newText}
    IN IF hits = {} THEN 0 ELSE CHOOSE i \in hits : \A j \in hits : j <= i

setText(b, newText, dontSendChangeMessage) ==
    LET p == ItemNamed(b, newText)
    IN IF p # 0
       THEN setSelectedId(b, b.items[p].itemId, dontSendChangeMessage)
       ELSE LET b1 == valueAssign([b EXCEPT !.lastCurrentId = 0], 0)
            IN IF b1.labelText # newText
               THEN LET b2 == labelSetText(b1, newText)
                    IN IF ~dontSendChangeMessage THEN triggerAsyncUpdate(b2) ELSE b2
               ELSE b1

\* clear emptying the store and leaving the selection alone
clearKeepsSelection(b, dontSendChangeMessage) ==
    [b EXCEPT !.items = <<>>, !.separatorPending = FALSE]

\* clear leaving separatorPending as it was
clearKeepsPending(b, dontSendChangeMessage) ==
    LET b1 == [b EXCEPT !.items = <<>>]
    IN IF ~b1.editable
       THEN setSelectedItemIndex(b1, -1, dontSendChangeMessage)
       ELSE b1

clear(b, dontSendChangeMessage) ==
    LET b1 == [b EXCEPT !.items = <<>>, !.separatorPending = FALSE]
    IN IF ~b1.editable
       THEN setSelectedItemIndex(b1, -1, dontSendChangeMessage)
       ELSE b1

setEditableText(b, isEditable) == [b EXCEPT !.editable = isEditable]

\* labelTextChanged posting a message of its own for every edit
labelTextChangedPosts(b) ==
    [b EXCEPT !.asyncQueued = @ + 1, !.triggers = Min(@ + 1, MaxTriggers)]

labelTextChanged(b) == triggerAsyncUpdate(b)

\* ---------------------------------------------------------------- popup menu
NoChoicesEntry ==
    [kind |-> "item", id |-> 1, text |-> "(no choices)", enabled |-> FALSE,
     ticked |-> FALSE]

MenuEntry(item, selectedId) ==
    IF isSeparator(item)
    THEN [kind |-> "separator", id |-> 0, text |-> "", enabled |-> FALSE,
          ticked |-> FALSE]
    ELSE IF item.isHeading
    THEN [kind |-> "header", id |-> 0, text |-> item.name, enabled |-> FALSE,
          ticked |-> FALSE]
    ELSE [kind |-> "item", id |-> item.itemId, text |-> item.name,
          enabled |-> item.isEnabled, ticked |-> (item.itemId = selectedId)]

\* the PopupMenu that showPopup fills in before it shows it
buildMenu(b) ==
    LET selectedId == getSelectedId(b)
    IN IF Len(b.items) = 0
       THEN <<NoChoicesEntry>>
       ELSE [i \in 1..Len(b.items) |-> MenuEntry(b.items[i], selectedId)]

\* what a shown menu can hand to its callback: an enabled entry's id, or 0
MenuResults(menu) ==
    {0} \cup {menu[i].id : i \in {j \in 1..Len(menu) :
                                     menu[j].kind = "item" /\ menu[j].enabled}}

\* showPopup without the menuActive guard
showPopupUnguarded(b) ==
    [b EXCEPT !.menuActive = TRUE, !.menus = Append(@, MenuResults(buildMenu(b)))]

showPopup(b) ==
    IF ~b.menuActive
    THEN [b EXCEPT !.menuActive = TRUE, !.menus = Append(@, MenuResults(buildMenu(b)))]
    ELSE b

\* the callback committing the selection but leaving menuActive set
modalStateFinishedKeepsActive(b, boxIsSet, returnValue) ==
    IF boxIsSet
    THEN [touched |-> TRUE,
          box |-> IF returnValue # 0
                  THEN setSelectedId(b, returnValue, FALSE)
                  ELSE b]
    ELSE [touched |-> FALSE, box |-> b]

\* the callback holding a plain pointer: it never finds the box gone
modalStateFinishedRawPointer(b, boxIsSet, returnValue) ==
    LET b1 == [b EXCEPT !.menuActive = FALSE]
    IN [touched |-> TRUE,
        box |-> IF returnValue # 0
                THEN setSelectedId(b1, returnValue, FALSE)
                ELSE b1]

\* ComboBox::Callback::modalStateFinished; boxIsSet is (box != 0), the
\* SafePointer's answer.  touched tells whether the ComboBox was accessed.
modalStateFinished(b, boxIsSet, returnValue) ==
    IF boxIsSet
    THEN LET b1 == [b EXCEPT !.menuActive = FALSE]
         IN [touched |-> TRUE,
             box |-> IF returnValue # 0
                     THEN setSelectedId(b1, returnValue, FALSE)
                     ELSE b1]
    ELSE [touched |-> FALSE, box |-> b]

\* ---------------------------------------------------------------- input events
mouseDown(b, isEnabled, onBox) ==
    LET b1 == [b EXCEPT !.isButtonDown = isEnabled]
    IN IF b1.isButtonDown /\ (onBox \/ ~b1.editable) THEN showPopup(b1) ELSE b1

mouseDrag(b, mouseWasClicked) ==
    IF b.isButtonDown /\ ~mouseWasClicked THEN showPopup(b) ELSE b

mouseUp(b, reallyContains, onBox) ==
    IF b.isButtonDown
    THEN LET b1 == [b EXCEPT !.isButtonDown = FALSE]
         IN IF reallyContains /\ (onBox \/ ~b1.editable) THEN showPopup(b1) ELSE b1
    ELSE b

Keys == {"up", "down", "return", "other"}

keyPressed(b, key) ==
    IF key = "up"
    THEN setSelectedItemIndex(b, Max(0, getSelectedItemIndex(b) - 1), FALSE)
    ELSE IF key = "down"
    THEN setSelectedItemIndex(b, Min(getSelectedItemIndex(b) + 1, getNumItems(b) - 1),
                              FALSE)
    ELSE IF key = "return"
    THEN showPopup(b)
    ELSE b

\* ---------------------------------------------------------------- listeners
addListener(b, listener) == [b EXCEPT !.listeners = @ \cup {listener}]

removeListener(b, listener) == [b EXCEPT !.listeners = @ \ {listener}]

\* handleAsyncUpdate returning without calling any listener
handleAsyncUpdateCallsNobody(b) == [checked |-> TRUE, remaining |-> {}]

\* handleAsyncUpdate using listeners.call, with no BailOutChecker
handleAsyncUpdateUnchecked(b) == [checked |-> FALSE, remaining |-> b.listeners]

\* handleAsyncUpdate: a BailOutChecker on this, then listeners.callChecked.
\* The result is the iteration it starts: the listeners still to call and
\* whether the checker is consulted before each call.
handleAsyncUpdate(b) == [checked |-> TRUE, remaining |-> b.listeners]

NoIteration == [checked |-> TRUE, remaining |-> {}]

\* ---------------------------------------------------------------- initial state
\* The state the constructor leaves: an empty store, nothing selected, a
\* non-editable label, no listener registered.
Init ==
    /\ items = <<>>
    /\ separatorPending = FALSE
    /\ lastCurrentId = 0
    /\ currentId = 0
    /\ valueQueued = FALSE
    /\ labelText = ""
    /\ editable = FALSE
    /\ menuActive = FALSE
    /\ isButtonDown = FALSE
    /\ listeners = {}
    /\ asyncQueued = 0
    /\ triggers = 0
    /\ menus = <<>>
    /\ alive = TRUE
    /\ liveListeners = ListenerIds
    /\ pc = "idle"
    /\ iter = NoIteration
    /\ calls = [l \in ListenerIds |-> 0]
    /\ calledDead = FALSE
    /\ accessAfterFree = FALSE
    /\ added = <<>>

env == <<alive, liveListeners, pc, iter, calls, calledDead, accessAfterFree>>

\* A call made by the application or the host event loop on the live widget,
\* between two event-loop callbacks.
Did(b, a) ==
    /\ pc = "idle"
    /\ alive
    /\ Commit(b)
    /\ added' = a
    /\ UNCHANGED env

\* such a call, other than addItem and clear
Call(b) == Did(b, added)

\* ---------------------------------------------------------------- actions
\* addItem with its arguments drawn from adds, a set of <<text, id>> pairs,
\* while the store holds at most cap entries
AddItemOf(adds, cap) ==
    \E a \in adds :
        /\ Len(addItem(Box, a[1], a[2]).items) <= cap
        /\ Did(addItem(Box, a[1], a[2]),
               IF a[1] # "" /\ a[2] # 0 THEN Append(added, a[2]) ELSE added)

AddItem == AddItemOf(Texts \X Ids, MaxItems)

AddSeparator == Call(addSeparator(Box))

AddSectionHeading ==
    \E t \in Texts :
        /\ Len(addSectionHeading(Box, t).items) <= MaxItems
        /\ Call(addSectionHeading(Box, t))

SetItemEnabled ==
    \E i \in Ids, e \in BOOLEAN :
        Call(setItemEnabled(Box, i, e))

ChangeItemTextOf(texts) ==
    \E i \in Ids, t \in texts :
        Call(changeItemText(Box, i, t))

ChangeItemText == ChangeItemTextOf(Texts)

Clear == \E d \in BOOLEAN : Did(clear(Box, d), <<>>)

SetSelectedIdOf(flags) ==
    \E i \in Ids, d \in flags :
        Call(setSelectedId(Box, i, d))

SetSelectedId == SetSelectedIdOf(BOOLEAN)

SetSelectedItemIndex ==
    \E k \in -1..MaxItems, d \in BOOLEAN :
        Call(setSelectedItemIndex(Box, k, d))

SetText ==
    \E t \in Texts, d \in BOOLEAN :
        Call(setText(Box, t, d))

SetEditableText ==
    \E e \in BOOLEAN : Call(setEditableText(Box, e))

\* The user finishes an edit of the label: the Label takes the new text and
\* tells its listener, the ComboBox.
LabelEdited ==
    \E t \in Texts :
        /\ editable
        /\ t # labelText
        /\ Call(labelTextChanged(labelSetText(Box, t)))

MouseDown ==
    \E isEnabled \in BOOLEAN, onBox \in BOOLEAN :
        Call(mouseDown(Box, isEnabled, onBox))

MouseDrag ==
    \E mouseWasClicked \in BOOLEAN :
        Call(mouseDrag(Box, mouseWasClicked))

MouseUp ==
    \E reallyContains \in BOOLEAN, onBox \in BOOLEAN :
        Call(mouseUp(Box, reallyContains, onBox))

KeyPressedOf(keys) == \E key \in keys : Call(keyPressed(Box, key))

KeyPressed == KeyPressedOf(Keys)

AddListener ==
    \E l \in liveListeners : Call(addListener(Box, l))

RemoveListener ==
    \E l \in ListenerIds : Call(removeListener(Box, l))

\* The Value's change message arrives.
ValueChanged ==
    /\ valueQueued
    /\ Call(valueChanged([Box EXCEPT !.valueQueued = FALSE]))

\* The popup menu ends and its callback runs, on a live or a destroyed box.
ModalStateFinished ==
    /\ pc = "idle"
    /\ Len(menus) > 0
    /\ \E r \in Head(menus) :
        LET res == modalStateFinished([Box EXCEPT !.menus = Tail(@)], alive, r)
        IN /\ Commit(res.box)
           /\ accessAfterFree' = (accessAfterFree \/ (res.touched /\ ~alive))
    /\ UNCHANGED <<alive, liveListeners, pc, iter, calls, calledDead, added>>

\* The event loop delivers the pending async update: handleAsyncUpdate starts.
HandleAsyncUpdate ==
    /\ pc = "idle"
    /\ alive
    /\ asyncQueued > 0
    /\ iter' = handleAsyncUpdate(Box)
    /\ Commit([Box EXCEPT !.asyncQueued = @ - 1, !.triggers = 0])
    /\ calls' = [l \in ListenerIds |-> 0]
    /\ pc' = "dispatch"
    /\ UNCHANGED <<alive, liveListeners, calledDead, accessAfterFree, added>>

\* What a listener may do to the box inside comboBoxChanged.
CallbackEffects ==
    {[do |-> "nothing", arg |-> 0], [do |-> "delete", arg |-> 0]}
    \cup {[do |-> "removeListener", arg |-> l] : l \in ListenerIds}
    \cup {[do |-> "setSelectedId", arg |-> i] : i \in Ids}

\* One step of callChecked: the checker is asked, then the next listener
\* still registered is called.  A destroyed listener that was never removed
\* is still in the list and is called through its stale pointer: the call
\* is undefined, it may run the callback as if the listener lived or stop
\* the program.
ListenerCalled ==
    /\ pc = "dispatch"
    /\ ~(iter.checked /\ ~alive)
    /\ \E l \in iter.remaining \cap listeners,
          eff \in CallbackEffects \cup {[do |-> "crash", arg |-> 0]} :
        /\ ~alive => eff.do = "nothing"
        /\ eff.do = "crash" => l \notin liveListeners
        /\ iter' = [iter EXCEPT !.remaining = @ \ {l}]
        /\ calls' = [calls EXCEPT ![l] = @ + 1]
        /\ calledDead' = (calledDead \/ l \notin liveListeners)
        /\ accessAfterFree' = (accessAfterFree \/ ~alive)
        /\ alive' = (alive /\ eff.do # "delete")
        /\ pc' = IF eff.do = "crash" THEN "crashed" ELSE pc
        /\ Commit(CASE eff.do = "removeListener" -> removeListener(Box, eff.arg)
                    [] eff.do = "setSelectedId" -> setSelectedId(Box, eff.arg, FALSE)
                    [] OTHER -> Box)
    /\ UNCHANGED <<liveListeners, added>>

\* callChecked returns: the box is gone, or no listener is left to call.
DispatchReturn ==
    /\ pc = "dispatch"
    /\ (iter.checked /\ ~alive) \/ (iter.remaining \cap listeners = {})
    /\ accessAfterFree' = (accessAfterFree \/ (~alive /\ ~iter.checked))
    /\ pc' = "idle"
    /\ iter' = NoIteration
    /\ UNCHANGED <<widget, alive, liveListeners, calls, calledDead, added>>

\* ~ComboBox, called by the application between two callbacks.  With a menu
\* open it dismisses the active menus: the menu's callback, still to come,
\* finds the box gone.
Destroy ==
    /\ pc = "idle"
    /\ alive
    /\ alive' = FALSE
    /\ UNCHANGED <<widget, liveListeners, pc, iter, calls, calledDead, accessAfterFree,
                   added>>

\* A listener object is deleted; nothing takes it out of the list.
DestroyListener ==
    /\ pc = "idle"
    /\ \E l \in liveListeners : liveListeners' = liveListeners \ {l}
    /\ UNCHANGED <<widget, alive, pc, iter, calls, calledDead, accessAfterFree, added>>

Next ==
    \/ AddItem \/ AddSeparator \/ AddSectionHeading \/ SetItemEnabled
    \/ ChangeItemText \/ Clear
    \/ SetSelectedId \/ SetSelectedItemIndex \/ SetText \/ SetEditableText
    \/ LabelEdited \/ ValueChanged
    \/ MouseDown \/ MouseDrag \/ MouseUp \/ KeyPressed \/ ModalStateFinished
    \/ AddListener \/ RemoveListener \/ HandleAsyncUpdate \/ ListenerCalled
    \/ DispatchReturn \/ Destroy \/ DestroyListener

Spec == Init /\ [][Next]_vars

\* ---------------------------------------------------------------- restrictions
\* Each group of claims is checked under the operations that touch the state
\* it reads; Spec above is their union.

\* one name per id, for the specifications where the names do not matter
NameOfId(i) == IF i % 2 = 1 THEN "a" ELSE "b"
PlainAdds == {<<NameOfId(i), i>> : i \in 1..MaxId}
OneAdd == {<<NameOfId(1), 1>>}
ArrowKeys == {"up", "down", "other"}

\* the item store
NextStore ==
    \/ AddItem \/ AddSeparator \/ AddSectionHeading \/ SetItemEnabled
    \/ ChangeItemText \/ Clear

SpecStore == Init /\ [][NextStore]_vars

\* the selection state machine
NextSelection ==
    \/ AddItemOf(Texts \X Ids, MaxShown) \/ ChangeItemText \/ Clear
    \/ SetSelectedId \/ SetSelectedItemIndex \/ SetText \/ SetEditableText
    \/ LabelEdited \/ ValueChanged \/ KeyPressedOf(ArrowKeys)

SpecSelection == Init /\ [][NextSelection]_vars

\* the popup menu
NextPopup ==
    \/ AddItemOf(PlainAdds, MaxShown) \/ SetItemEnabled \/ SetSelectedIdOf({TRUE})
    \/ SetEditableText \/ MouseDown \/ MouseDrag \/ MouseUp
    \/ KeyPressedOf({"return"}) \/ ModalStateFinished \/ Destroy

SpecPopup == Init /\ [][NextPopup]_vars

\* the coalesced notification.  A popup commit is setSelectedId (id, false),
\* which SetSelectedId already makes with every id.
NextNotify ==
    \/ AddItemOf(PlainAdds, MaxNotified) \/ SetSelectedId \/ SetSelectedItemIndex
    \/ SetText \/ Clear \/ SetEditableText \/ LabelEdited
    \/ AddListener \/ RemoveListener
    \/ HandleAsyncUpdate \/ ListenerCalled \/ DispatchReturn

SpecNotify == Init /\ [][NextNotify]_vars

\* the dispatch and the lifetimes of the box and of its listeners
NextDispatch ==
    \/ SetSelectedIdOf({FALSE})
    \/ AddListener \/ RemoveListener
    \/ HandleAsyncUpdate \/ ListenerCalled \/ DispatchReturn
    \/ Destroy \/ DestroyListener

SpecDispatch == Init /\ [][NextDispatch]_vars

\* addItem as its assertions ask for it: a non-empty text and a non-zero id
\* that no entry of the store carries yet
FreshAdds == {a \in Names \X (1..MaxId) : getItemForId(Box, a[2]) = 0}

\* the store filled by such calls, with separators and headings in between
NextFresh ==
    \/ AddItemOf(FreshAdds, MaxItems) \/ AddSeparator \/ AddSectionHeading
    \/ Clear \/ SetEditableText

SpecFresh == Init /\ [][NextFresh]_vars

\* the store filled by any addItem call
NextAppend ==
    \/ AddItem \/ AddSeparator \/ AddSectionHeading \/ Clear

SpecAppend == Init /\ [][NextAppend]_vars

\* the selection over a store as the assertions ask for it: distinct non-zero
\* ids, non-empty names, renames included.  A popup commit is
\* setSelectedId (id, false), which SetSelectedId makes with every id.
NextUnique ==
    \/ AddItemOf(FreshAdds, MaxShown) \/ AddSectionHeading \/ ChangeItemTextOf(Names)
    \/ Clear \/ SetSelectedId \/ SetSelectedItemIndex \/ SetText \/ SetEditableText
    \/ LabelEdited \/ ValueChanged \/ KeyPressedOf(ArrowKeys)

SpecUnique == Init /\ [][NextUnique]_vars

\* every way to change the selection with notification, and the event loop
\* that delivers it.  The message loop hands over every posted message, and a
\* running handleAsyncUpdate goes on to its next call and to its return.
NextDeliver ==
    \/ AddItemOf(OneAdd, MaxNotified) \/ SetSelectedIdOf({FALSE}) \/ SetText \/ Clear
    \/ SetEditableText \/ LabelEdited
    \/ KeyPressedOf({"return"}) \/ ModalStateFinished
    \/ AddListener \/ RemoveListener
    \/ HandleAsyncUpdate \/ ListenerCalled \/ DispatchReturn

SpecDeliver ==
    /\ Init /\ [][NextDeliver]_vars
    /\ WF_vars(HandleAsyncUpdate)
    /\ WF_vars(ListenerCalled)
    /\ WF_vars(DispatchReturn)

\* ================================================================ claims

\* some entry of the store carries the non-zero id x
KnownId(x) == x # 0 /\ \E i \in 1..Len(items) : items[i].itemId = x

\* C1: setSelectedId(x) followed at once by getSelectedId() gives x exactly
\* when x is the id of an entry of the store, and the label then shows the
\* name of an entry with that id; for any other x (zero or unknown) it gives
\* 0 and the label is empty.  This holds in every reachable state, whatever
\* was selected or typed before, with or without notification.
SetThenGetSelectedId ==
    \A x \in Ids, d \in BOOLEAN :
        LET after == setSelectedId(Box, x, d)
        IN IF KnownId(x)
           THEN /\ getSelectedId(after) = x
                /\ \E i \in 1..Len(items) :
                       items[i].itemId = x /\ getText(after) = items[i].name
           ELSE /\ getSelectedId(after) = 0
                /\ getText(after) = ""

\* an item is selected while the label is editable and a change is pending:
\* setSelectedId has acted on a box whose label the user may have typed into
SetSelectedIdActed ==
    /\ editable
    /\ getSelectedId(Box) = MaxId
    /\ lastCurrentId = MaxId
    /\ asyncQueued = 1

\* C2: every separator and every heading has itemId 0, and every entry with
\* a non-zero itemId has a non-empty name and an itemId no other entry has.
StoreWellFormed ==
    \A i \in 1..Len(items) :
        /\ (isSeparator(items[i]) \/ items[i].isHeading) => items[i].itemId = 0
        /\ items[i].itemId # 0 =>
               /\ items[i].name # ""
               /\ \A j \in 1..Len(items) :
                      j # i => items[j].itemId # items[i].itemId

\* C3: addItem with empty text, with id 0 or with an id already in the store
\* changes nothing: not the items, not the pending separator, not the
\* selection.
InvalidAddItemIgnored ==
    \A t \in Texts, i \in Ids :
        (t = "" \/ i = 0 \/ getItemForId(Box, i) # 0)
            => addItem(Box, t, i) = Box

\* C4: however many operations trigger a notification before the pending
\* async update is delivered, at most one delivery is outstanding, and in a
\* delivery each listener gets comboBoxChanged at most once.
NotificationCoalesced ==
    /\ asyncQueued <= 1
    /\ \A l \in ListenerIds : calls[l] <= 1

\* inside one delivery every listener has been called once, and the
\* triggers their callbacks made wait as a single pending update
TriggersCoalesced ==
    /\ pc = "dispatch"
    /\ \A l \in ListenerIds : calls[l] = 1
    /\ triggers = MaxTriggers
    /\ asyncQueued = 1

\* C5: at most one popup menu is outstanding, and while menuActive is set
\* showPopup changes nothing, whichever handler calls it: mouseDown,
\* mouseDrag and mouseUp change at most isButtonDown, the return key nothing.
PopupOpensOnce ==
    /\ Len(menus) <= 1
    /\ (alive /\ menuActive) =>
           /\ showPopup(Box) = Box
           /\ keyPressed(Box, "return") = Box
           /\ \A x \in BOOLEAN, y \in BOOLEAN :
                  /\ mouseDown(Box, x, y) = [Box EXCEPT !.isButtonDown = x]
                  /\ mouseDrag(Box, x) = Box
                  /\ mouseUp(Box, x, y) = [Box EXCEPT !.isButtonDown = FALSE]

\* the menu is open on an editable box with the button held down, so a
\* mouseDrag or a mouseUp now calls showPopup again
PopupOpenButtonDown ==
    /\ alive
    /\ menuActive
    /\ isButtonDown
    /\ editable
    /\ Len(menus) = 1
    /\ Len(items) > 0

\* C6: on a live box the popup's callback clears menuActive, so that
\* showPopup opens a menu again.  With a non-zero id the selection is
\* committed as setSelectedId(id) with notification does it; with id 0 the
\* current id, the label, the store and the pending notification are as
\* they were.
PopupCallbackCommits ==
    (alive /\ menuActive) =>
        \A r \in Ids :
            LET after == modalStateFinished(Box, TRUE, r).box
                p == getItemForId(Box, r)
                target == IF p # 0 THEN items[p].name ELSE ""
                changes == lastCurrentId # r \/ labelText # target
            IN /\ ~after.menuActive
               /\ showPopup(after).menuActive
               /\ Len(showPopup(after).menus) = Len(after.menus) + 1
               /\ r # 0 =>
                      /\ after = [setSelectedId(Box, r, FALSE) EXCEPT !.menuActive = FALSE]
                      /\ getText(after) = target
                      /\ getSelectedId(after) = (IF p # 0 THEN r ELSE 0)
                      /\ changes => after.asyncQueued = 1 /\ after.triggers > 0
                      /\ ~changes => after.asyncQueued = asyncQueued
               /\ r = 0 => after = [Box EXCEPT !.menuActive = FALSE]

\* a menu has finished with an item chosen: nothing is open, the item is
\* selected and its notification is pending
PopupCommitted ==
    /\ alive
    /\ ~menuActive
    /\ menus = <<>>
    /\ getSelectedId(Box) # 0
    /\ asyncQueued = 1

\* C7: setText(t) with t the name of a real item leaves getSelectedId() at
\* the id of an item named t and getText() = t; with t the name of no real
\* item it leaves getSelectedId() = 0, getSelectedItemIndex() = -1 and
\* getText() = t.
SetTextSelects ==
    \A t \in Texts, d \in BOOLEAN :
        LET after == setText(Box, t, d)
            named == {i \in RealPositions(Box) : items[i].name = t}
        IN IF named # {}
           THEN /\ getSelectedId(after) \in {items[i].itemId : i \in named}
                /\ getText(after) = t
           ELSE /\ getSelectedId(after) = 0
                /\ getSelectedItemIndex(after) = -1
                /\ getText(after) = t

DestroyedListenerNeverCalled == ~calledDead

\* C9, as the code has it: what is checked before each call is that the
\* box exists, and the listener called is one the list still holds; a
\* listener that removeListener took out before the call is not called.
CalledWhileBoxAliveAndRegistered ==
    [][\A l \in ListenerIds :
           calls'[l] > calls[l] => (alive /\ l \in listeners)]_vars

\* in a delivery, a listener that was destroyed but never removed has been
\* called, and a live listener that is not in the list has not
StaleListenerCalled ==
    /\ pc = "dispatch"
    /\ calledDead
    /\ \E l \in listeners \ liveListeners : calls[l] = 1
    /\ \E l \in liveListeners \ listeners : calls[l] = 0

\* C10: once a comboBoxChanged callback has destroyed the box, the delivery
\* stops: no further listener is called and the box is not touched again.
DispatchStopsWhenBoxDestroyed == ~accessAfterFree

\* the box was destroyed inside a delivery that still had a listener to call
BoxDestroyedInDispatch ==
    /\ pc = "dispatch"
    /\ ~alive
    /\ iter.remaining \cap listeners # {}

\* C11: after addItem calls with non-empty text and pairwise distinct
\* non-zero ids, with addSeparator and addSectionHeading calls in between,
\* getNumItems() is the number of addItem calls since the last clear.
NumItemsCountsAdds == getNumItems(Box) = Len(added)

\* MaxId items were added and the store holds an entry that is not an item
ItemsAmongOtherEntries ==
    /\ Len(added) = MaxId
    /\ Len(items) > MaxId

\* C12: for such a store, indexOfItemId gives the k-th added id the index
\* k-1 (real items only, in insertion order) and getItemId takes that index
\* back to the id; indexOfItemId(getItemId(i)) = i for every index i below
\* getNumItems().
IndexIdRoundTrip ==
    /\ \A k \in 1..Len(added) :
           /\ indexOfItemId(Box, added[k]) = k - 1
           /\ getItemId(Box, indexOfItemId(Box, added[k])) = added[k]
    /\ \A i \in 0..(getNumItems(Box) - 1) :
           indexOfItemId(Box, getItemId(Box, i)) = i

\* two items were added behind a heading, so that no item's index is its
\* position in the store
ItemsBehindHeading ==
    /\ Len(added) = 2
    /\ Len(items) > 0
    /\ items[1].isHeading

\* C13: the store never starts with a separator, never ends with one and
\* never holds two in a row; addSeparator followed by clear leaves no
\* separator and none pending, and the first addItem after that clear makes
\* a store of that one item.
NoStraySeparator ==
    /\ Len(items) > 0 =>
           ~isSeparator(items[1]) /\ ~isSeparator(items[Len(items)])
    /\ \A i \in 1..(Len(items) - 1) :
           ~(isSeparator(items[i]) /\ isSeparator(items[i + 1]))
    /\ \A d \in BOOLEAN :
           LET cleared == clear(addSeparator(Box), d)
           IN /\ cleared.items = <<>>
              /\ ~cleared.separatorPending
              /\ \A t \in Names, i \in 1..MaxId :
                     addItem(cleared, t, i).items = <<ItemInfo(t, i, TRUE, FALSE)>>

\* a separator lies between two entries and another one is pending
SeparatorInsideAndPending ==
    /\ separatorPending
    /\ \E i \in 1..Len(items) : isSeparator(items[i])

\* the box with no notification pending, to see whether a call schedules one
Quiet(b) == [b EXCEPT !.asyncQueued = 0, !.triggers = 0]

\* C14: after clear() the store has no item and no separator is pending.
\* On a non-editable box nothing is selected afterwards (current id 0,
\* empty label, getSelectedId() = 0, getSelectedItemIndex() = -1) and a
\* notification is scheduled exactly when dontSendChangeMessage is false
\* and the current id or the label text changed; on an editable box the
\* label text and the current id stay and nothing is scheduled.
ClearResets ==
    \A d \in BOOLEAN, b0 \in {Box, addSeparator(Box)} :
        LET after == clear(b0, d)
            quiet == clear(Quiet(b0), d)
            changed == currentId # 0 \/ labelText # ""
        IN /\ getNumItems(after) = 0
           /\ after.items = <<>>
           /\ ~after.separatorPending
           /\ ~editable =>
                  /\ after.currentId = 0
                  /\ getText(after) = ""
                  /\ getSelectedId(after) = 0
                  /\ getSelectedItemIndex(after) = -1
                  /\ (quiet.asyncQueued = 1) <=> (~d /\ changed)
           /\ editable =>
                  /\ getText(after) = labelText
                  /\ after.currentId = currentId
                  /\ quiet.asyncQueued = 0

\* a full store with an item selected silently on a non-editable box: a
\* clear() now has a selection to reset and a notification to schedule
SelectedBeforeClear ==
    /\ ~editable
    /\ Len(items) = MaxShown
    /\ getSelectedId(Box) # 0
    /\ asyncQueued = 0

\* C15: the menu showPopup builds has one entry per entry of the store, in
\* order: a separator for a separator, a header with its name for a
\* heading, and for a real item an entry with its id, name and enabled
\* flag, ticked exactly when its id is getSelectedId(); at most one entry
\* is ticked, none when nothing is selected; the disabled "no choices"
\* entry is there exactly when the store is empty.
PopupMirrorsStore ==
    LET menu == buildMenu(Box)
        selectedId == getSelectedId(Box)
        ticked == {i \in 1..Len(menu) : menu[i].ticked}
    IN /\ (items = <<>>) <=> (\E i \in 1..Len(menu) : menu[i] = NoChoicesEntry)
       /\ items = <<>> => Len(menu) = 1
       /\ items # <<>> =>
              /\ Len(menu) = Len(items)
              /\ \A i \in 1..Len(items) :
                     /\ isSeparator(items[i]) <=> menu[i].kind = "separator"
                     /\ (~isSeparator(items[i]) /\ items[i].isHeading)
                            <=> menu[i].kind = "header"
                     /\ isRealItem(items[i]) <=> menu[i].kind = "item"
                     /\ menu[i].kind = "header" => menu[i].text = items[i].name
                     /\ menu[i].kind = "item" =>
                            /\ menu[i].id = items[i].itemId
                            /\ menu[i].text = items[i].name
                            /\ menu[i].enabled = items[i].isEnabled
                            /\ menu[i].ticked <=> (items[i].itemId = selectedId)
                     /\ menu[i].kind # "item" => ~menu[i].ticked
       /\ Cardinality(ticked) <= 1
       /\ selectedId = 0 => ticked = {}

\* C16: setSelectedId(id, dontSend) schedules a notification exactly when
\* dontSend is false and the last committed id differs from id or the label
\* text differs from the target text; when neither differs it changes
\* nothing; a second identical call changes nothing and schedules nothing;
\* and after a call with dontSend true the valueChanged callback of the
\* current-id value schedules nothing either, whenever it arrives.
SetSelectedIdNotifiesOnChange ==
    /\ valueChanged(Box) = Box
    /\ \A x \in Ids, d \in BOOLEAN :
           LET after == setSelectedId(Quiet(Box), x, d)
               p == getItemForId(Box, x)
               target == IF p # 0 THEN items[p].name ELSE ""
               differs == lastCurrentId # x \/ labelText # target
           IN /\ (after.asyncQueued = 1) <=> (~d /\ differs)
              /\ ~differs => setSelectedId(Box, x, d) = Box
              /\ \A d2 \in BOOLEAN : setSelectedId(after, x, d2) = after
              /\ d => valueChanged([after EXCEPT !.valueQueued = FALSE]).asyncQueued = 0

\* an item was selected with dontSendChangeMessage set: nothing is
\* scheduled, and the change message of the current-id value is in flight
SilentSelectionInFlight ==
    /\ valueQueued
    /\ getSelectedId(Box) = MaxId
    /\ asyncQueued = 0
    /\ triggers = 0

\* a running dispatch has called every listener the list holds
Dispatched ==
    /\ pc = "dispatch"
    /\ iter.remaining \cap listeners = {}
    /\ \A l \in listeners : calls[l] = 1

\* C17: a listener is called only inside a dispatch, never inside the call
\* that changed the selection, and only while the list holds it; and every
\* notification triggered on a box that stays alive is followed by a
\* dispatch that calls every listener registered then.
ChangeDelivered ==
    /\ [][\A l \in ListenerIds :
             calls'[l] > calls[l] => (pc = "dispatch" /\ l \in listeners)]_vars
    /\ (pc = "idle" /\ alive /\ triggers > 0) ~> (~alive \/ Dispatched)

\* a dispatch has called every listener there is, on a live box
AllListenersCalled ==
    /\ alive
    /\ Dispatched
    /\ listeners = ListenerIds

\* C18: the popup's callback arriving after the box was destroyed, with
\* whatever id, neither reads nor writes the box: menuActive is not
\* cleared, setSelectedId is not called, and no access to a destroyed box
\* is reachable in any order of destruction and callback.
PopupCallbackSkipsDestroyedBox ==
    /\ ~accessAfterFree
    /\ ~alive =>
           \A r \in Ids :
               modalStateFinished(Box, alive, r) = [touched |-> FALSE, box |-> Box]

\* the box was destroyed with its menu open, and the menu's callback has
\* arrived since: menuActive is as the destructor found it
CallbackAfterDestroy ==
    /\ ~alive
    /\ menuActive
    /\ menus = <<>>

\* C19: with distinct non-zero ids and non-empty names getSelectedId() and
\* getSelectedItemIndex() agree: one is none exactly when the other is, and
\* when an item is selected the index is that of the item with the selected
\* id and the label shows its name.
SelectionGettersAgree ==
    LET id == getSelectedId(Box)
        index == getSelectedItemIndex(Box)
    IN /\ (id # 0) <=> (index # -1)
       /\ id # 0 =>
              /\ index \in 0..(getNumItems(Box) - 1)
              /\ getItemId(Box, index) = id
              /\ getText(Box) = getItemText(Box, index)

\* the current id is that of an item whose name the label does not show
\* (renamed or typed over): both getters say nothing is selected
CurrentItemNotShown ==
    /\ getItemForId(Box, currentId) # 0
    /\ getSelectedId(Box) = 0
    /\ getSelectedItemIndex(Box) = -1

\* C20: with n = getNumItems() > 0 the up key leaves the selected index at
\* max(0, previous - 1) and the down key at min(previous + 1, n - 1), always
\* within 0..n-1; up on the first item and down on the last change nothing
\* and schedule nothing; with n = 0 nothing is selected afterwards.
ArrowKeysStayInRange ==
    LET n == getNumItems(Box)
        previous == getSelectedItemIndex(Box)
        up == keyPressed(Quiet(Box), "up")
        down == keyPressed(Quiet(Box), "down")
    IN /\ n > 0 =>
              /\ getSelectedItemIndex(up) = Max(0, previous - 1)
              /\ getSelectedItemIndex(down) = Min(previous + 1, n - 1)
              /\ getSelectedItemIndex(up) \in 0..(n - 1)
              /\ getSelectedItemIndex(down) \in 0..(n - 1)
              /\ previous = 0 => up = Quiet(Box)
              /\ previous = n - 1 => down = Quiet(Box)
       /\ n = 0 =>
              /\ getSelectedItemIndex(up) = -1 /\ getSelectedId(up) = 0
              /\ getSelectedItemIndex(down) = -1 /\ getSelectedId(down) = 0

====
